---- MODULE Spec2Model ----
(***************************************************************************)
(* Scan-progress synchronisation layer of the DPDP compliance toolkit      *)
(* frontend: the useScanWebSocket hook (one WebSocket per observed scan,   *)
(* keep-alive, fixed-delay reconnection, merge of inbound messages), the   *)
(* progress modal that consumes it, the Scans page (list polling, row      *)
(* progress and remaining time, row actions, selection and deletes), and   *)
(* the Applications page running-scans polling and its edit/delete gate,   *)
(* and the auth store with the useSessionManager hook (activity tracking,  *)
(* heartbeat, inactivity warning and auto-logout).                         *)
(***************************************************************************)
EXTENDS Integers, Sequences, FiniteSets, TLC

\* ------------------------------------------------------------------ bounds
\* Largest number of sockets / reconnect timers alive at the same time.
MaxConns == 3
\* Largest number of sockets / reconnect timers alive at the same time when
\* inbound messages are explored as well.
MaxObserved == 1
\* Longest findings sequence explored.
MaxFindings == 2

\* Largest page count of a listed scan.
MaxPages == 3

\* Largest number of onCompleted calls counted.
MaxCompletedCalls == 2

\* Latest instant of the client clock and of started_at, in half seconds.
MaxHalfSeconds == 6

\* Latest instant of the session clock, in inactivity-check periods (10 s).
MaxTicks == 12

\* Largest number of heartbeat requests awaiting their answer.
MaxInFlight == 2

\* ------------------------------------------------------- constants / domains
RECONNECT_DELAY_MS == 3000

NoScan == "null"
ScanIds == {"A", "B"}
FindingIds == {"f1", "f2"}
Percents == {35, 40}

ActiveStatuses == {"pending", "queued", "running"}
TerminalStatuses == {"completed", "failed", "cancelled"}
ScanStatus == ActiveStatuses \cup TerminalStatuses

ListScanIds == {"s1", "s2"}
\* application_id of the listed scans.
AppIds == {"app1", "app2"}
ApplicationId == [id \in {"s1", "s2"} |-> IF id = "s1" THEN "app1" ELSE "app2"]
Pages == {"other", "scans", "applications"}
Undefined == [id \in {"s1", "s2"} |-> "undefined"]
ProgressPercentages == {0, 50}
ScanItems ==
  [status : ScanStatus, pages_scanned : 0..MaxPages, total_pages : 0..MaxPages,
   progress_percentage : ProgressPercentages]

SockIds == 1..MaxConns
TimerIds == 1..MaxConns
NoTimer == [scan |-> NoScan, delay |-> 0]
NoSock == [state |-> "closed", scan |-> NoScan, ping |-> FALSE]

\* A numeric JSON field that is missing or null (undefined / null in JS).
Absent == -1
\* x || 0
OrZero(x) == IF x = Absent THEN 0 ELSE x

\* useState<ScanProgressData | null>(null): every field read through
\* progress?.field is undefined.
NoProgress ==
  [scan_id |-> NoScan, status |-> "null", percent |-> Absent,
   pages_scanned |-> Absent, total_pages |-> Absent,
   elapsed_seconds |-> Absent, estimated_remaining_seconds |-> Absent]

\* Payloads of 'progress' messages about scan a whose counters are all given.
ProgressMessages(a) ==
  [scan_id : {a}, status : ScanStatus, percent : Percents,
   pages_scanned : {1}, total_pages : {2}, elapsed_seconds : {2},
   estimated_remaining_seconds : {5}]

\* Payloads of 'progress' messages about scan a as the modal may receive
\* them: optional fields present or missing, any reported percent.
ModalStatuses == {"running", "completed", "failed"}
ModalPercents == {35, 40, 100}
ModalProgressMessages(a) ==
  [scan_id : {a}, status : ModalStatuses, percent : ModalPercents,
   pages_scanned : {0, 1}, total_pages : {Absent, 2},
   elapsed_seconds : {Absent, 2},
   estimated_remaining_seconds : {Absent, 5}]

\* A value that may be null: <<>> is null, <<n>> is the number n.
Null == <<>>

\* setInterval(checkInactivity, 10000): the period of the inactivity check,
\* which is also the step of the session clock.
CHECK_INTERVAL_MS == 10000

DEFAULT_SESSION_CONFIG == [inactivityTimeout |-> 300, heartbeatInterval |-> 30]

\* A session configuration handed to login by the server, in seconds.
ShortSessionConfig == [inactivityTimeout |-> 90, heartbeatInterval |-> 20]

SessionConfigs == {DEFAULT_SESSION_CONFIG, ShortSessionConfig}

AuthTokens == {"t1"}
RefreshTokens == {"r1"}
Users == {[id |-> "u1", name |-> "n1"]}
\* The Partial<User> values handed to updateUser.
UserUpdates == {[name |-> "n2"]}

\* HTTP status of the answer to a heartbeat; 0 = no response at all.
NoResponse == 0
HeartbeatAnswers == {200, 401, 500, NoResponse}

\* The instants of the session clock, in epoch ms.
SessionInstants == {CHECK_INTERVAL_MS * k : k \in 1..MaxTicks}

SessionEvent(kind, status) == [kind |-> kind, status |-> status]
NoSessionEvent == SessionEvent("none", 0)

\* ------------------------------------------------------------------- state
VARIABLES
  scanId,               \* the scanId argument of the current render
  socks,                \* every WebSocket object created by connect()
  wsRef,                \* wsRef.current (0 = null)
  timers,               \* pending setTimeout reconnect callbacks
  reconnectTimeoutRef,  \* reconnectTimeoutRef.current (0 = null)
  pingIntervalRef,      \* pingIntervalRef.current: socket whose interval it is (0 = null)
  leakedPing,           \* an interval of a closed socket is still ticking
  isConnected,
  progress,
  findings,
  error,
  \* ---- Scans page, Applications page and the scans they list
  serverScans,          \* status of every scan on the server ("absent" = none)
  page,                 \* the route that is mounted
  scansData,            \* data of the ['scans'] query
  scansFetching,        \* a request of the ['scans'] query is in flight
  scansFetchCause,      \* what issued that request
  scansPoll,            \* refetch interval in force for ['scans'] (0 = none)
  runningData,          \* data of the ['scans', 'running'] query
  runningFetching,
  runningFetchCause,
  runningPoll,          \* refetch interval in force for ['scans', 'running']
  row,                  \* the Scan item of one table row as last fetched
  startedAt,            \* started_at of that scan in epoch ms (0 = not set)
  now,                  \* the client clock in epoch ms at the last render
  selectedScans,        \* the selectedScans state of the Scans page
  deleteRequest,        \* ids covered by the last delete request sent
  \* ---- ScanProgressModal, the consumer of the hook
  lastProgressMsg,      \* payload of the last 'progress' message handled
  modalTimer,           \* the 2000 ms timeout of the modal's effect is pending
  completedCalls,       \* number of calls of the modal's onCompleted prop
  \* ---- what the hook was handed and what it handed on
  lastMessage,          \* kind of the last MessageEvent given to ws.onmessage
  notified,             \* argument of the last call of options.onError
  scansError,           \* isError of the ['scans'] query
  \* ---- useAuthStore
  user,                 \* <<>> = null, <<u>> = the User u
  token,                \* <<>> = null, <<s>> = the string s
  refreshToken,
  isAuthenticated,
  sessionConfig,
  lastActivity,         \* epoch ms
  \* ---- useSessionManager
  heartbeatIntervalRef, \* <<>> = null, <<ms>> = an interval of that period
  inactivityCheckRef,
  warningShownRef,
  clock,                \* Date.now() in epoch ms
  heartbeatsInFlight,   \* POST /auth/heartbeat requests not yet answered
  sessionEvent,         \* what the session layer ran last at this instant
  warnedAt              \* instant of the last inactivity warning (0 = none)

wsVars == <<scanId, socks, wsRef, timers, reconnectTimeoutRef, pingIntervalRef,
            leakedPing, isConnected, progress, findings, error,
            lastProgressMsg, modalTimer, completedCalls, lastMessage,
            notified>>

rxVars == <<lastMessage, notified>>

modalVars == <<lastProgressMsg, modalTimer, completedCalls>>

listVars == <<serverScans, page, scansData, scansFetching, scansFetchCause,
              scansPoll, runningData, runningFetching, runningFetchCause,
              runningPoll, scansError>>

authVars == <<user, token, refreshToken, isAuthenticated, sessionConfig,
              lastActivity>>

sessionVars == <<heartbeatIntervalRef, inactivityCheckRef, warningShownRef,
                 clock, heartbeatsInFlight, sessionEvent, warnedAt>>

sessVars == <<authVars, sessionVars>>

uiVars == <<row, startedAt, now, selectedScans, deleteRequest, sessVars>>

vars == <<wsVars, listVars, uiVars>>

\* ---------------------------------------------------------------- helpers
IsLive(sock) == sock.state \in {"connecting", "open"}

Min(S) == CHOOSE x \in S : \A y \in S : x <= y

\* WebSocket.close(): CONNECTING/OPEN -> CLOSING, the close event comes later.
WsClose(ss, s) ==
  IF s # 0 /\ IsLive(ss[s]) THEN [ss EXCEPT ![s].state = "closing"] ELSE ss

\* clearTimeout(id): a no-op when the timer already fired.
ClearTimeout(tt, t) ==
  IF t # 0 THEN [tt EXCEPT ![t] = NoTimer] ELSE tt

\* clearInterval(id): the interval of socket s stops.
ClearInterval(ss, s) ==
  IF s # 0 THEN [ss EXCEPT ![s].ping = FALSE] ELSE ss

\* new WebSocket(...): the object takes the first unused slot.
NewSockId(ss) == Min({s \in SockIds : ss[s].state = "closed"})
NewTimerId(tt) == Min({t \in TimerIds : tt[t] = NoTimer})

Tokens(ss, tt) ==
  Cardinality({s \in SockIds : ss[s].state # "closed"})
    + Cardinality({t \in TimerIds : tt[t] # NoTimer})

\* connect() without the clean-up of the existing connection.
ConnectSocksNoClose(ss, ref, a) ==
  [ss EXCEPT ![NewSockId(ss)] =
     [state |-> "connecting", scan |-> a, ping |-> FALSE]]

\* connect() of the render whose scanId is a (a non-null): closes the socket
\* held in wsRef, creates a new one for a and stores it in wsRef.
ConnectSocks(ss, ref, a) ==
  LET closed == WsClose(ss, ref)
  IN  [closed EXCEPT ![NewSockId(closed)] =
         [state |-> "connecting", scan |-> a, ping |-> FALSE]]

ConnectRef(ss, ref) == NewSockId(WsClose(ss, ref))

\* setTimeout(() => { if (scanId) connect() }, 3000) in ws.onclose
ReconnectTimer(a) == [scan |-> a, delay |-> RECONNECT_DELAY_MS]

\* ------------------------------------------------------------------- Init
Init ==
  /\ scanId = NoScan
  /\ socks = [s \in SockIds |-> NoSock]
  /\ wsRef = 0
  /\ timers = [t \in TimerIds |-> NoTimer]
  /\ reconnectTimeoutRef = 0
  /\ pingIntervalRef = 0
  /\ leakedPing = FALSE
  /\ isConnected = FALSE
  /\ progress = NoProgress
  /\ findings = <<>>
  /\ error = "null"
  /\ serverScans = [id \in ListScanIds |-> "absent"]
  /\ page = "other"
  /\ scansData = Undefined
  /\ scansFetching = FALSE
  /\ scansFetchCause = "none"
  /\ scansPoll = 0
  /\ runningData = Undefined
  /\ runningFetching = FALSE
  /\ runningFetchCause = "none"
  /\ runningPoll = 0
  /\ row = [status |-> "pending", pages_scanned |-> 0, total_pages |-> 0,
            progress_percentage |-> 0]
  /\ startedAt = 0
  /\ now = 0
  /\ selectedScans = {}
  /\ deleteRequest = {}
  /\ lastProgressMsg = NoProgress
  /\ modalTimer = FALSE
  /\ completedCalls = 0
  /\ lastMessage = "none"
  /\ notified = "none"
  /\ scansError = FALSE
  /\ user = Null
  /\ token = Null
  /\ refreshToken = Null
  /\ isAuthenticated = FALSE
  /\ sessionConfig = DEFAULT_SESSION_CONFIG
  /\ lastActivity = CHECK_INTERVAL_MS
  /\ heartbeatIntervalRef = Null
  /\ inactivityCheckRef = Null
  /\ warningShownRef = FALSE
  /\ clock = CHECK_INTERVAL_MS
  /\ heartbeatsInFlight = 0
  /\ sessionEvent = NoSessionEvent
  /\ warnedAt = 0

\* ---------------------------------------------------------------- actions
\* The scanId argument changes (modal opened, closed, or another scan):
\* the effect cleanup runs disconnect(), then the effect runs connect().
SetScanId(new, cap) ==
  /\ new # scanId
  /\ LET tt1 == ClearTimeout(timers, reconnectTimeoutRef)
         ss1 == WsClose(ClearInterval(socks, pingIntervalRef), wsRef)
     IN  /\ new # NoScan => Tokens(ss1, tt1) < cap
         /\ timers' = tt1
         /\ socks' = IF new # NoScan THEN ConnectSocks(ss1, 0, new) ELSE ss1
         /\ wsRef' = IF new # NoScan THEN ConnectRef(ss1, 0) ELSE 0
  /\ scanId' = new
  /\ isConnected' = FALSE
  /\ UNCHANGED <<reconnectTimeoutRef, pingIntervalRef, leakedPing,
                 progress, findings, error,
                 modalVars, rxVars, listVars, uiVars>>

\* A ws.onopen that leaves the error string as it is.
OnOpenKeepsError(s) ==
  /\ socks[s].state = "connecting"
  /\ socks' = [socks EXCEPT ![s].state = "open", ![s].ping = TRUE]
  /\ pingIntervalRef' = s
  /\ isConnected' = TRUE
  /\ UNCHANGED <<scanId, wsRef, timers, reconnectTimeoutRef, leakedPing,
                 progress, findings, error,
                 modalVars, rxVars, listVars, uiVars>>

\* ws.onopen
OnOpen(s) ==
  /\ socks[s].state = "connecting"
  /\ socks' = [socks EXCEPT ![s].state = "open", ![s].ping = TRUE]
  /\ pingIntervalRef' = s
  /\ isConnected' = TRUE
  /\ error' = "null"
  /\ UNCHANGED <<scanId, wsRef, timers, reconnectTimeoutRef, leakedPing,
                 progress, findings,
                 modalVars, rxVars, listVars, uiVars>>

\* ws.onclose that gives up when the socket never opened.
OnCloseHandlerGiveUp(s) ==
  LET ss1 == ClearInterval(socks, pingIntervalRef)
      t   == NewTimerId(timers)
  IN  /\ isConnected' = FALSE
      /\ leakedPing' = (leakedPing \/ ss1[s].ping)
      /\ socks' = [ss1 EXCEPT ![s] = NoSock]
      /\ timers' = IF socks[s].state = "connecting" THEN timers
                   ELSE [timers EXCEPT ![t] = ReconnectTimer(socks[s].scan)]
      /\ reconnectTimeoutRef' = IF socks[s].state = "connecting"
                                THEN reconnectTimeoutRef ELSE t
      /\ UNCHANGED <<scanId, wsRef, pingIntervalRef, progress, findings, error,
                 modalVars, rxVars, listVars, uiVars>>

\* ws.onclose of socket s
OnCloseHandler(s) ==
  LET ss1 == ClearInterval(socks, pingIntervalRef)
      t   == NewTimerId(timers)
  IN  /\ isConnected' = FALSE
      /\ leakedPing' = (leakedPing \/ ss1[s].ping)
      /\ socks' = [ss1 EXCEPT ![s] = NoSock]
      /\ timers' = [timers EXCEPT ![t] = ReconnectTimer(socks[s].scan)]
      /\ reconnectTimeoutRef' = t
      /\ UNCHANGED <<scanId, wsRef, pingIntervalRef, progress, findings, error,
                 modalVars, rxVars, listVars, uiVars>>

\* The close event of a socket on which close() was called.
CloseEvent(s) ==
  /\ socks[s].state = "closing"
  /\ OnCloseHandler(s)

\* The server or the network closes a connecting or open socket.
ServerClose(s) ==
  /\ IsLive(socks[s])
  /\ OnCloseHandler(s)

\* The reconnect timeout fires: if (scanId) connect(), both of the closure.
ReconnectFire(t) ==
  /\ timers[t] # NoTimer
  /\ timers' = [timers EXCEPT ![t] = NoTimer]
  /\ socks' = ConnectSocks(socks, wsRef, timers[t].scan)
  /\ wsRef' = ConnectRef(socks, wsRef)
  /\ UNCHANGED <<scanId, reconnectTimeoutRef, pingIntervalRef, leakedPing,
                 isConnected, progress, findings, error,
                 modalVars, rxVars, listVars, uiVars>>

\* The ScanProgressData object built from the payload of a 'progress' message.
ProgressData(data) ==
  [scan_id |-> data.scan_id,
   status |-> data.status,
   percent |-> data.percent,
   pages_scanned |-> data.pages_scanned,
   total_pages |-> OrZero(data.total_pages),
   elapsed_seconds |-> OrZero(data.elapsed_seconds),
   estimated_remaining_seconds |-> data.estimated_remaining_seconds]

\* A state setter that never lets the percent go down.
SetProgressKeepMax(prev, progressData) ==
  [progressData EXCEPT
     !.percent = IF prev.percent > @ THEN prev.percent ELSE @]

\* setProgress(progressData): the new value replaces the state.
SetProgress(prev, progressData) == progressData

\* The modal's effect on [progress?.status]: when the status changed the
\* cleanup clears the pending timeout, and a terminal status starts one.
ModalEffect(prevStatus, status, pending) ==
  IF status = prevStatus THEN pending
  ELSE status = "completed" \/ status = "failed" \/ status = "cancelled"

\* ws.onmessage, case 'progress', of the socket of scan data.scan_id, and
\* the render of the modal that follows.
OnProgress(s, data) ==
  /\ socks[s].state = "open"
  /\ data.scan_id = socks[s].scan
  /\ progress' = SetProgress(progress, ProgressData(data))
  /\ lastProgressMsg' = data
  /\ lastMessage' = "progress"
  /\ modalTimer' = ModalEffect(progress.status, progress'.status, modalTimer)
  /\ UNCHANGED <<scanId, socks, wsRef, timers, reconnectTimeoutRef,
                 pingIntervalRef, leakedPing, isConnected, findings, error,
                 completedCalls, notified, listVars, uiVars>>

\* A handler of 'finding' messages that keeps the latest finding only.
OnFindingLatestOnly(s, f) ==
  /\ socks[s].state = "open"
  /\ Len(findings) < MaxFindings
  /\ lastMessage' = "finding"
  /\ findings' = <<[id |-> f]>>
  /\ UNCHANGED <<scanId, socks, wsRef, timers, reconnectTimeoutRef,
                 pingIntervalRef, leakedPing, isConnected, progress, error,
                 modalVars, notified, listVars, uiVars>>

\* ws.onmessage, case 'finding'
OnFinding(s, f) ==
  /\ socks[s].state = "open"
  /\ Len(findings) < MaxFindings
  /\ lastMessage' = "finding"
  /\ findings' = <<[id |-> f]>> \o findings
  /\ UNCHANGED <<scanId, socks, wsRef, timers, reconnectTimeoutRef,
                 pingIntervalRef, leakedPing, isConnected, progress, error,
                 modalVars, notified, listVars, uiVars>>

\* A handler of 'error' messages that gives the connection up.
OnErrorMessageClosing(s) ==
  /\ socks[s].state = "open"
  /\ error' = "server error"
  /\ notified' = "server error"
  /\ lastMessage' = "error"
  /\ socks' = WsClose(socks, s)
  /\ UNCHANGED <<scanId, wsRef, timers, reconnectTimeoutRef,
                 pingIntervalRef, leakedPing, isConnected, progress, findings,
                 modalVars, listVars, uiVars>>

\* ws.onmessage, case 'error'
OnErrorMessage(s) ==
  /\ socks[s].state = "open"
  /\ error' = "server error"
  /\ notified' = "server error"
  /\ lastMessage' = "error"
  /\ UNCHANGED <<scanId, socks, wsRef, timers, reconnectTimeoutRef,
                 pingIntervalRef, leakedPing, isConnected, progress, findings,
                 modalVars, listVars, uiVars>>

\* ws.onerror
OnError(s) ==
  /\ IsLive(socks[s])
  /\ error' = "WebSocket connection error"
  /\ UNCHANGED <<scanId, socks, wsRef, timers, reconnectTimeoutRef,
                 pingIntervalRef, leakedPing, isConnected, progress, findings,
                 modalVars, rxVars, listVars, uiVars>>

\* ws.onmessage, case 'connected'
OnConnectedMessage(s) ==
  /\ socks[s].state = "open"
  /\ lastMessage' = "connected"
  /\ UNCHANGED <<scanId, socks, wsRef, timers, reconnectTimeoutRef,
                 pingIntervalRef, leakedPing, isConnected, progress, findings,
                 error, modalVars, notified, listVars, uiVars>>

\* A handler of 'pong' messages that takes the pong as a sign of health.
OnPongHealthy(s) ==
  /\ socks[s].state = "open"
  /\ lastMessage' = "pong"
  /\ error' = "null"
  /\ UNCHANGED <<scanId, socks, wsRef, timers, reconnectTimeoutRef,
                 pingIntervalRef, leakedPing, isConnected, progress, findings,
                 modalVars, notified, listVars, uiVars>>

\* ws.onmessage, case 'pong'
OnPong(s) ==
  /\ socks[s].state = "open"
  /\ lastMessage' = "pong"
  /\ UNCHANGED <<scanId, socks, wsRef, timers, reconnectTimeoutRef,
                 pingIntervalRef, leakedPing, isConnected, progress, findings,
                 error, modalVars, notified, listVars, uiVars>>

\* Payloads on which the body of the try block throws: JSON.parse fails, or
\* the message has type 'finding' and no finding object.
ThrowingPayloads == {"invalid JSON", "finding without finding"}

\* A catch block that shows the failure to the user.
OnThrowingPayloadSurfaced(s, kind) ==
  /\ socks[s].state = "open"
  /\ lastMessage' = kind
  /\ error' = "Failed to parse WebSocket message"
  /\ UNCHANGED <<scanId, socks, wsRef, timers, reconnectTimeoutRef,
                 pingIntervalRef, leakedPing, isConnected, progress, findings,
                 modalVars, notified, listVars, uiVars>>

\* ws.onmessage, the catch block: the exception is logged.
OnThrowingPayload(s, kind) ==
  /\ socks[s].state = "open"
  /\ lastMessage' = kind
  /\ UNCHANGED <<scanId, socks, wsRef, timers, reconnectTimeoutRef,
                 pingIntervalRef, leakedPing, isConnected, progress, findings,
                 error, modalVars, notified, listVars, uiVars>>

\* ws.onmessage, default case: the type is logged.
OnUnknownType(s) ==
  /\ socks[s].state = "open"
  /\ lastMessage' = "unknown type"
  /\ UNCHANGED <<scanId, socks, wsRef, timers, reconnectTimeoutRef,
                 pingIntervalRef, leakedPing, isConnected, progress, findings,
                 error, modalVars, notified, listVars, uiVars>>

\* clearFindings, called by the component that uses the hook.
ClearFindings ==
  /\ findings # <<>>
  /\ findings' = <<>>
  /\ UNCHANGED <<scanId, socks, wsRef, timers, reconnectTimeoutRef,
                 pingIntervalRef, leakedPing, isConnected, progress, error,
                 modalVars, rxVars, listVars, uiVars>>

\* optionsRef.current.onCompleted?.(data): the modal's option calls its
\* onCompleted prop.
HookOnCompleted(calls) == calls + 1

\* ws.onmessage, case 'completed'
OnCompletedMessage(s) ==
  /\ socks[s].state = "open"
  /\ completedCalls < MaxCompletedCalls
  /\ completedCalls' = HookOnCompleted(completedCalls)
  /\ lastMessage' = "completed"
  /\ UNCHANGED <<scanId, socks, wsRef, timers, reconnectTimeoutRef,
                 pingIntervalRef, leakedPing, isConnected, progress, findings,
                 error, lastProgressMsg, modalTimer, notified, listVars, uiVars>>

\* The timeout started by the modal's effect fires: onCompleted?.()
ModalTimeoutFire ==
  /\ modalTimer
  /\ completedCalls < MaxCompletedCalls
  /\ modalTimer' = FALSE
  /\ completedCalls' = completedCalls + 1
  /\ UNCHANGED <<scanId, socks, wsRef, timers, reconnectTimeoutRef,
                 pingIntervalRef, leakedPing, isConnected, progress, findings,
                 error, lastProgressMsg, rxVars, listVars, uiVars>>

\* Every handler of the hook; the caller observes few scans at a time.
Next ==
  \/ \E new \in ScanIds \cup {NoScan} : SetScanId(new, MaxObserved)
  \/ \E s \in SockIds : OnOpen(s)
  \/ \E s \in SockIds : CloseEvent(s)
  \/ \E s \in SockIds : ServerClose(s)
  \/ \E t \in TimerIds : ReconnectFire(t)
  \/ \E s \in SockIds, a \in ScanIds :
        \E data \in ProgressMessages(a) : OnProgress(s, data)
  \/ \E s \in SockIds, f \in FindingIds : OnFinding(s, f)
  \/ \E s \in SockIds : OnErrorMessage(s)
  \/ \E s \in SockIds : OnError(s)
  \/ \E s \in SockIds : OnCompletedMessage(s)
  \/ ModalTimeoutFire
  \/ \E s \in SockIds : OnConnectedMessage(s)
  \/ \E s \in SockIds : OnPong(s)
  \/ \E s \in SockIds, kind \in ThrowingPayloads : OnThrowingPayload(s, kind)
  \/ \E s \in SockIds : OnUnknownType(s)
  \/ ClearFindings

Spec == Init /\ [][Next]_vars

\* One scan observed and kept: every kind of inbound message and the
\* transport error event, across reconnects.
NextMessages ==
  \/ \E new \in ScanIds : scanId = NoScan /\ SetScanId(new, MaxObserved)
  \/ \E s \in SockIds : OnOpen(s)
  \/ \E s \in SockIds : ServerClose(s)
  \/ \E t \in TimerIds : ReconnectFire(t)
  \/ \E s \in SockIds, a \in ScanIds :
        \E data \in ProgressMessages(a) : OnProgress(s, data)
  \/ \E s \in SockIds, f \in FindingIds : OnFinding(s, f)
  \/ \E s \in SockIds : OnErrorMessage(s)
  \/ \E s \in SockIds : OnError(s)
  \/ \E s \in SockIds : OnConnectedMessage(s)
  \/ \E s \in SockIds : OnPong(s)
  \/ \E s \in SockIds, kind \in ThrowingPayloads : OnThrowingPayload(s, kind)
  \/ \E s \in SockIds : OnUnknownType(s)
  \/ ClearFindings

SpecMessages == Init /\ [][NextMessages]_vars

\* The caller moves from one scan to another while messages arrive.
NextSwitch ==
  \/ \E new \in ScanIds \cup {NoScan} : SetScanId(new, MaxConns)
  \/ \E s \in SockIds : OnOpen(s)
  \/ \E s \in SockIds : CloseEvent(s)
  \/ \E s \in SockIds, a \in ScanIds :
        \E data \in ProgressMessages(a) : OnProgress(s, data)

SpecSwitch == Init /\ [][NextSwitch]_vars

\* The connection life cycle alone, with more sockets and timers alive.
NextConn ==
  \/ \E new \in ScanIds \cup {NoScan} : SetScanId(new, MaxConns)
  \/ \E s \in SockIds : OnOpen(s)
  \/ \E s \in SockIds : CloseEvent(s)
  \/ \E s \in SockIds : ServerClose(s)
  \/ \E t \in TimerIds : ReconnectFire(t)

SpecConn == Init /\ [][NextConn]_vars

\* The caller starts observing one scan and keeps observing it; timers of a
\* running event loop fire.
NextObserved ==
  \/ \E new \in ScanIds : scanId = NoScan /\ SetScanId(new, MaxObserved)
  \/ \E s \in SockIds : OnOpen(s)
  \/ \E s \in SockIds : ServerClose(s)
  \/ \E t \in TimerIds : ReconnectFire(t)
  \/ \E s \in SockIds, a \in ScanIds :
        \E data \in ProgressMessages(a) : OnProgress(s, data)
  \/ \E s \in SockIds, f \in FindingIds : OnFinding(s, f)

SpecObserved ==
  Init /\ [][NextObserved]_vars /\ WF_vars(\E t \in TimerIds : ReconnectFire(t))

\* The progress modal opened on one scan and kept open: the messages of
\* that scan, with optional fields present or missing, across reconnects.
NextModal ==
  \/ \E new \in ScanIds : scanId = NoScan /\ SetScanId(new, MaxObserved)
  \/ \E s \in SockIds : OnOpen(s)
  \/ \E s \in SockIds : ServerClose(s)
  \/ \E t \in TimerIds : ReconnectFire(t)
  \/ \E s \in SockIds, a \in ScanIds :
        \E data \in ModalProgressMessages(a) : OnProgress(s, data)
  \/ \E s \in SockIds : OnCompletedMessage(s)
  \/ ModalTimeoutFire

SpecModal == Init /\ [][NextModal]_vars

\* ------------------------------------------------- list polling (REST)
HasActive(list) ==
  list # Undefined /\ \E id \in ListScanIds : list[id] \in ActiveStatuses

\* refetchInterval of the Scans query that only looks for 'running' scans.
ScansRefetchIntervalRunningOnly(data) ==
  IF data # Undefined /\ \E id \in ListScanIds : data[id] = "running"
  THEN 2000 ELSE 0

\* refetchInterval of the Scans query as a constant.
ScansRefetchIntervalAlways(data) == 2000

\* refetchInterval of the Scans query: 2000 while some scan of the fetched
\* list is running, pending or queued, false (0) otherwise.
ScansRefetchInterval(data) ==
  IF data # Undefined
     /\ \E id \in ListScanIds :
          data[id] = "running" \/ data[id] = "pending" \/ data[id] = "queued"
  THEN 2000 ELSE 0

\* refetchInterval of the Applications page query: a constant.
RunningRefetchInterval(data) == 5000

\* GET /scans as answered now.
ListAll == serverScans
\* GET /scans?status=running as answered now.
ListRunning ==
  [id \in ListScanIds |->
     IF serverScans[id] = "running" THEN "running" ELSE "absent"]

\* Navigation between routes: the page left unmounts (its interval is
\* cleared), the page entered mounts (its query fetches and computes its
\* interval from the cached data).
Navigate(to) ==
  /\ to # page
  /\ page' = to
  /\ IF to = "scans"
     THEN /\ scansFetching' = TRUE
          /\ scansFetchCause' = IF scansFetching THEN scansFetchCause ELSE "mount"
          /\ scansPoll' = ScansRefetchInterval(scansData)
     ELSE /\ scansPoll' = 0
          /\ UNCHANGED <<scansFetching, scansFetchCause>>
  /\ IF to = "applications"
     THEN /\ runningFetching' = TRUE
          /\ runningFetchCause' =
               IF runningFetching THEN runningFetchCause ELSE "mount"
          /\ runningPoll' = RunningRefetchInterval(runningData)
     ELSE /\ runningPoll' = 0
          /\ UNCHANGED <<runningFetching, runningFetchCause>>
  /\ UNCHANGED <<serverScans, scansData, runningData, wsVars, scansError,
                 uiVars>>

\* The refetch interval of the Scans query elapses.
ScansPollTick ==
  /\ page = "scans"
  /\ scansPoll # 0
  /\ ~scansFetching
  /\ scansFetching' = TRUE
  /\ scansFetchCause' = "interval"
  /\ UNCHANGED <<serverScans, page, scansData, scansPoll, runningData,
                 runningFetching, runningFetchCause, runningPoll, wsVars,
                 scansError, uiVars>>

\* The list request of the Scans query is answered.
ScansFetchSuccess ==
  /\ scansFetching
  /\ scansData' = ListAll
  /\ scansFetching' = FALSE
  /\ scansError' = FALSE
  /\ scansFetchCause' = "none"
  /\ scansPoll' = IF page = "scans" THEN ScansRefetchInterval(ListAll) ELSE 0
  /\ UNCHANGED <<serverScans, page, runningData, runningFetching,
                 runningFetchCause, runningPoll, wsVars, uiVars>>

\* A Scans query that stops its interval when a request fails.
ScansFetchFailStops ==
  /\ scansFetching
  /\ scansFetching' = FALSE
  /\ scansError' = TRUE
  /\ scansFetchCause' = "none"
  /\ scansPoll' = 0
  /\ UNCHANGED <<serverScans, page, scansData, runningData, runningFetching,
                 runningFetchCause, runningPoll, wsVars, uiVars>>

\* The list request of the Scans query fails: the data stay.
ScansFetchFail ==
  /\ scansFetching
  /\ scansFetching' = FALSE
  /\ scansError' = TRUE
  /\ scansFetchCause' = "none"
  /\ scansPoll' = IF page = "scans" THEN ScansRefetchInterval(scansData) ELSE 0
  /\ UNCHANGED <<serverScans, page, scansData, runningData, runningFetching,
                 runningFetchCause, runningPoll, wsVars, uiVars>>

\* The refetch interval of the running-scans query elapses.
RunningPollTick ==
  /\ page = "applications"
  /\ runningPoll # 0
  /\ ~runningFetching
  /\ runningFetching' = TRUE
  /\ runningFetchCause' = "interval"
  /\ UNCHANGED <<serverScans, page, scansData, scansFetching, scansFetchCause,
                 scansPoll, runningData, runningPoll, wsVars, scansError, uiVars>>

RunningFetchSuccess ==
  /\ runningFetching
  /\ runningData' = ListRunning
  /\ runningFetching' = FALSE
  /\ runningFetchCause' = "none"
  /\ runningPoll' =
       IF page = "applications" THEN RunningRefetchInterval(ListRunning) ELSE 0
  /\ UNCHANGED <<serverScans, page, scansData, scansFetching, scansFetchCause,
                 scansPoll, wsVars, scansError, uiVars>>

RunningFetchFail ==
  /\ runningFetching
  /\ runningFetching' = FALSE
  /\ runningFetchCause' = "none"
  /\ runningPoll' =
       IF page = "applications" THEN RunningRefetchInterval(runningData) ELSE 0
  /\ UNCHANGED <<serverScans, page, scansData, scansFetching, scansFetchCause,
                 scansPoll, runningData, wsVars, scansError, uiVars>>

\* appsWithRunningScans: the application_id of every item of the last
\* answer of the running-scans query.
AppsWithRunningScans(data) ==
  IF data = Undefined THEN {}
  ELSE {ApplicationId[id] : id \in {i \in ListScanIds : data[i] # "absent"}}

\* disabled of the edit and the delete button of an application card.
EditDisabled(app) == app \in AppsWithRunningScans(runningData)

\* scanMutation succeeds on the Applications page: the scan exists on the
\* server and every query under ['scans'] is invalidated (the mounted one
\* refetches).
StartScan(id) ==
  /\ page = "applications"
  /\ ApplicationId[id] \notin AppsWithRunningScans(runningData)
  /\ serverScans[id] = "absent"
  /\ serverScans' = [serverScans EXCEPT ![id] = "pending"]
  /\ runningFetching' = TRUE
  /\ runningFetchCause' = "invalidate"
  /\ UNCHANGED <<page, scansData, scansFetching, scansFetchCause, scansPoll,
                 runningData, runningPoll, wsVars, scansError, uiVars>>

\* A cancelMutation that also writes the new status into the cached list.
CancelScanOptimistic(id) ==
  /\ page = "scans"
  /\ scansData # Undefined
  /\ scansData[id] \in {"pending", "queued", "running"}
  /\ serverScans[id] \in ActiveStatuses
  /\ serverScans' = [serverScans EXCEPT ![id] = "cancelled"]
  /\ scansData' = [scansData EXCEPT ![id] = "cancelled"]
  /\ scansFetching' = TRUE
  /\ scansFetchCause' = "invalidate"
  /\ UNCHANGED <<page, scansPoll, runningData, runningFetching,
                 runningFetchCause, runningPoll, wsVars, scansError, uiVars>>

\* cancelMutation succeeds on the Scans page.
CancelScan(id) ==
  /\ page = "scans"
  /\ scansData # Undefined
  /\ scansData[id] \in {"pending", "queued", "running"}
  /\ serverScans[id] \in ActiveStatuses
  /\ serverScans' = [serverScans EXCEPT ![id] = "cancelled"]
  /\ scansFetching' = TRUE
  /\ scansFetchCause' = "invalidate"
  /\ UNCHANGED <<page, scansData, scansPoll, runningData, runningFetching,
                 runningFetchCause, runningPoll, wsVars, scansError, uiVars>>

\* deleteMutation succeeds on the Scans page.
DeleteScan(id) ==
  /\ page = "scans"
  /\ scansData # Undefined
  /\ scansData[id] \in {"failed", "cancelled", "completed"}
  /\ serverScans[id] \in TerminalStatuses
  /\ deleteRequest' = {id}
  /\ serverScans' = [serverScans EXCEPT ![id] = "absent"]
  /\ scansFetching' = TRUE
  /\ scansFetchCause' = "invalidate"
  /\ UNCHANGED <<page, scansData, scansPoll, runningData, runningFetching,
                 runningFetchCause, runningPoll, wsVars, scansError, row,
                 startedAt, now,
                 selectedScans,
                 sessVars>>

\* The scan executor: a scan is created on the server (schedule, other
\* client) or moves on.
ServerCreate(id) ==
  /\ serverScans[id] = "absent"
  /\ serverScans' = [serverScans EXCEPT ![id] = "pending"]
  /\ UNCHANGED <<page, scansData, scansFetching, scansFetchCause, scansPoll,
                 runningData, runningFetching, runningFetchCause, runningPoll,
                 wsVars, scansError, uiVars>>

ServerAdvance(id, st) ==
  /\ \/ serverScans[id] = "pending" /\ st = "queued"
     \/ serverScans[id] = "queued" /\ st = "running"
     \/ serverScans[id] = "running" /\ st \in {"completed", "failed"}
  /\ serverScans' = [serverScans EXCEPT ![id] = st]
  /\ UNCHANGED <<page, scansData, scansFetching, scansFetchCause, scansPoll,
                 runningData, runningFetching, runningFetchCause, runningPoll,
                 wsVars, scansError, uiVars>>

NextList ==
  \/ \E to \in Pages : Navigate(to)
  \/ ScansPollTick
  \/ ScansFetchSuccess
  \/ ScansFetchFail
  \/ RunningPollTick
  \/ RunningFetchSuccess
  \/ RunningFetchFail
  \/ \E id \in ListScanIds : StartScan(id)
  \/ \E id \in ListScanIds : CancelScan(id)
  \/ \E id \in ListScanIds : DeleteScan(id)
  \/ \E id \in ListScanIds : ServerCreate(id)
  \/ \E id \in ListScanIds, st \in ScanStatus : ServerAdvance(id, st)

SpecList == Init /\ [][NextList]_vars

\* ------------------------------------------ Scans page: selection, deletes
\* paginatedData: the rows of the table (one page holds every listed scan).
PaginatedData ==
  IF scansData = Undefined THEN {}
  ELSE {id \in ListScanIds : scansData[id] # "absent"}

\* toggleSelectScan: the checkbox of a row.
ToggleSelectScan(id) ==
  /\ page = "scans"
  /\ id \in PaginatedData
  /\ selectedScans' = IF id \in selectedScans THEN selectedScans \ {id}
                      ELSE selectedScans \cup {id}
  /\ UNCHANGED <<wsVars, listVars, row, startedAt, now, deleteRequest,
                 sessVars>>

\* toggleSelectAll: the checkbox of the table header.
ToggleSelectAll ==
  /\ page = "scans"
  /\ scansData # Undefined
  /\ selectedScans' =
       IF Cardinality(selectedScans) = Cardinality(PaginatedData) THEN {}
       ELSE PaginatedData
  /\ UNCHANGED <<wsVars, listVars, row, startedAt, now, deleteRequest,
                 sessVars>>

\* The scans after a delete request covering ids was accepted.
Deleted(ids) ==
  [id \in ListScanIds |-> IF id \in ids THEN "absent" ELSE serverScans[id]]

\* handleBulkDelete (confirmed by the user): bulkDeleteMutation sends the
\* selected ids; on success the queries under ['scans'] are invalidated and
\* the selection is emptied, on error nothing changes.
HandleBulkDelete(ok) ==
  /\ page = "scans"
  /\ selectedScans # {}
  /\ deleteRequest' = selectedScans
  /\ IF ok
     THEN /\ serverScans' = Deleted(selectedScans)
          /\ selectedScans' = {}
          /\ scansFetching' = TRUE
          /\ scansFetchCause' = "invalidate"
     ELSE UNCHANGED <<serverScans, selectedScans, scansFetching,
                      scansFetchCause>>
  /\ UNCHANGED <<page, scansData, scansPoll, runningData, runningFetching,
                 runningFetchCause, runningPoll, wsVars, scansError, row,
                 startedAt, now,
                 sessVars>>

\* handleDeleteAll (confirmed by the user): deleteAllMutation covers every
\* scan.
HandleDeleteAll(ok) ==
  /\ page = "scans"
  /\ PaginatedData # {}
  /\ deleteRequest' = ListScanIds
  /\ IF ok
     THEN /\ serverScans' = Deleted(ListScanIds)
          /\ selectedScans' = {}
          /\ scansFetching' = TRUE
          /\ scansFetchCause' = "invalidate"
     ELSE UNCHANGED <<serverScans, selectedScans, scansFetching,
                      scansFetchCause>>
  /\ UNCHANGED <<page, scansData, scansPoll, runningData, runningFetching,
                 runningFetchCause, runningPoll, wsVars, scansError, row,
                 startedAt, now,
                 sessVars>>

\* The Scans page alone with the scans it lists.
NextScans ==
  \/ \E to \in {"other", "scans"} : Navigate(to)
  \/ ScansPollTick
  \/ ScansFetchSuccess
  \/ ScansFetchFail
  \/ \E id \in ListScanIds : CancelScan(id)
  \/ \E id \in ListScanIds : DeleteScan(id)
  \/ \E id \in ListScanIds : ToggleSelectScan(id)
  \/ ToggleSelectAll
  \/ \E ok \in BOOLEAN : HandleBulkDelete(ok)
  \/ \E ok \in BOOLEAN : HandleDeleteAll(ok)
  \/ \E id \in ListScanIds : ServerCreate(id)
  \/ \E id \in ListScanIds, st \in ScanStatus : ServerAdvance(id, st)

SpecScans == Init /\ [][NextScans]_vars

\* ------------------------------------------------------ row progress
Min2(a, b) == IF a <= b THEN a ELSE b

\* isRunning of a table row.
IsRunning(scan) ==
  scan.status = "pending" \/ scan.status = "queued" \/ scan.status = "running"

\* The cancel button of a row is rendered.
CancelOffered(scan) == IsRunning(scan)

\* A delete button rendered for failed and completed scans only.
DeleteOfferedNotCancelled(scan) ==
  scan.status = "failed" \/ scan.status = "completed"

\* The delete button of a row is rendered.
DeleteOffered(scan) ==
  scan.status = "failed" \/ scan.status = "cancelled"
    \/ scan.status = "completed"

\* The instants of the client clock and of started_at, in epoch ms.
Instants == {500 * k : k \in 0..MaxHalfSeconds}

\* calculateElapsed(startedAt) evaluated at client time t.
CalculateElapsed(start, t) ==
  IF start = 0 THEN 0 ELSE (t - start) \div 1000

\* estimateRemaining(scan) evaluated at client time t.
EstimateRemaining(scan, start, t) ==
  IF start = 0 \/ scan.pages_scanned = 0 \/ scan.total_pages = 0 THEN Null
  ELSE LET elapsed == CalculateElapsed(start, t)
           remainingPages == scan.total_pages - scan.pages_scanned
       IN  <<(elapsed * remainingPages) \div scan.pages_scanned>>

\* remaining of a table row.
RowRemaining(scan, start, t) ==
  IF IsRunning(scan) THEN EstimateRemaining(scan, start, t) ELSE Null

\* The progress of a Scans table row.
RowProgress(scan) ==
  IF scan.status = "completed" THEN 100
  ELSE IF scan.status = "running" /\ scan.total_pages # 0
       THEN Min2((scan.pages_scanned * 100) \div scan.total_pages, 99)
       ELSE scan.progress_percentage

\* A list fetch brings a new version of the scan shown in the row.
RowRefetch(scan) ==
  /\ row' = scan
  /\ UNCHANGED <<wsVars, listVars, startedAt, now, selectedScans,
                 deleteRequest,
                 sessVars>>

NextRow == \E scan \in ScanItems : RowRefetch(scan)

SpecRow == Init /\ [][NextRow]_vars

\* A list fetch brings the started_at of the scan shown in the row.
RowStarted(start) ==
  /\ start # startedAt
  /\ startedAt' = start
  /\ UNCHANGED <<wsVars, listVars, row, now, selectedScans, deleteRequest,
                 sessVars>>

\* The row is rendered again at client time t (new Date()).
RowRender(t) ==
  /\ t # now
  /\ now' = t
  /\ UNCHANGED <<wsVars, listVars, row, startedAt, selectedScans,
                 deleteRequest,
                 sessVars>>

\* The elapsed and remaining time of one table row.
NextEstimate ==
  \/ \E scan \in ScanItems : RowRefetch(scan)
  \/ \E start \in Instants : RowStarted(start)
  \/ \E t \in Instants : RowRender(t)

SpecEstimate == Init /\ [][NextEstimate]_vars

\* ------------------------------------------------------ progress modal
\* percent of the modal: progress?.percent || 0
ModalPercent == OrZero(progress.percent)

\* estimatedRemaining of the modal: progress?.estimated_remaining_seconds
ModalEstimatedRemaining == progress.estimated_remaining_seconds

\* ------------------------------------------- auth store and session manager
\* A logout that keeps the refresh token.
LogoutKeepsRefreshToken ==
  /\ token' = Null
  /\ refreshToken' = refreshToken
  /\ user' = Null
  /\ isAuthenticated' = FALSE
  /\ sessionConfig' = DEFAULT_SESSION_CONFIG
  /\ lastActivity' = 0

\* logout of the store.
Logout ==
  /\ token' = Null
  /\ refreshToken' = Null
  /\ user' = Null
  /\ isAuthenticated' = FALSE
  /\ sessionConfig' = DEFAULT_SESSION_CONFIG
  /\ lastActivity' = 0

\* login of the store; sessionConfig is <<>> when the argument is left out.
Login(tok, rtok, usr, config) ==
  /\ token' = <<tok>>
  /\ refreshToken' = <<rtok>>
  /\ user' = <<usr>>
  /\ isAuthenticated' = TRUE
  /\ sessionConfig' = IF config = Null THEN DEFAULT_SESSION_CONFIG
                      ELSE config[1]
  /\ lastActivity' = clock

\* { ...state.user, ...userData }
MergeUser(u, userData) ==
  [k \in DOMAIN u |-> IF k \in DOMAIN userData THEN userData[k] ELSE u[k]]

\* updateUser of the store.
UpdateUser(userData) ==
  /\ user' = IF user # Null THEN <<MergeUser(user[1], userData)>> ELSE Null
  /\ UNCHANGED <<token, refreshToken, isAuthenticated, sessionConfig,
                 lastActivity>>

\* updateLastActivity of the store.
UpdateLastActivity ==
  /\ lastActivity' = clock
  /\ UNCHANGED <<user, token, refreshToken, isAuthenticated, sessionConfig>>

\* setSessionConfig of the store.
SetSessionConfig(config) ==
  /\ sessionConfig' = config
  /\ UNCHANGED <<user, token, refreshToken, isAuthenticated, lastActivity>>

\* A heartbeat effect whose interval outlives the logout.
HeartbeatEffectNoCleanup(auth, config) ==
  IF auth THEN <<config.heartbeatInterval * 1000>> ELSE heartbeatIntervalRef

\* heartbeatIntervalRef after the heartbeat effect of a render.
HeartbeatEffect(auth, config) ==
  IF auth THEN <<config.heartbeatInterval * 1000>> ELSE Null

\* inactivityCheckRef after the inactivity effect of a render.
InactivityEffect(auth) ==
  IF auth THEN <<CHECK_INTERVAL_MS>> ELSE Null

\* The heartbeat effect runs again: one of its dependencies changed
\* (sendHeartbeat changes with isAuthenticated only).
HeartbeatEffectRuns ==
  \/ isAuthenticated' # isAuthenticated
  \/ sessionConfig'.heartbeatInterval # sessionConfig.heartbeatInterval

\* The render of useSessionManager that follows a change of the store, with
\* its effects: both intervals are cleared and, while authenticated, set
\* again, and a heartbeat effect that runs sends the initial heartbeat.
Render ==
  /\ heartbeatIntervalRef' = HeartbeatEffect(isAuthenticated', sessionConfig')
  /\ inactivityCheckRef' = InactivityEffect(isAuthenticated')
  /\ IF HeartbeatEffectRuns /\ isAuthenticated'
     THEN /\ heartbeatsInFlight < MaxInFlight
          /\ heartbeatsInFlight' = heartbeatsInFlight + 1
     ELSE heartbeatsInFlight' = heartbeatsInFlight

\* window.location.href = '/login' after a logout: the page is loaded anew,
\* the store comes back from its persisted (logged out) state, the refs are
\* those of a new hook instance and no answer is awaited any more.
Reload ==
  /\ heartbeatIntervalRef' = Null
  /\ inactivityCheckRef' = Null
  /\ warningShownRef' = FALSE
  /\ heartbeatsInFlight' = 0

\* The login page calls login.
UserLogin(tok, rtok, usr, config) ==
  /\ Login(tok, rtok, usr, config)
  /\ Render
  /\ sessionEvent' = SessionEvent("login", 0)
  /\ UNCHANGED <<warningShownRef, clock, warnedAt, wsVars, listVars, row,
                 startedAt, now, selectedScans, deleteRequest>>

\* The logout entry of the user menu: onClick={logout}.
UserLogout ==
  /\ isAuthenticated
  /\ Logout
  /\ Render
  /\ sessionEvent' = SessionEvent("logout", 0)
  /\ UNCHANGED <<warningShownRef, clock, warnedAt, wsVars, listVars, row,
                 startedAt, now, selectedScans, deleteRequest>>

\* A caller of updateUser.
UserUpdate(userData) ==
  /\ UpdateUser(userData)
  /\ Render
  /\ sessionEvent' = SessionEvent("updateUser", 0)
  /\ UNCHANGED <<warningShownRef, clock, warnedAt, wsVars, listVars, row,
                 startedAt, now, selectedScans, deleteRequest>>

\* A caller of setSessionConfig.
ConfigChange(config) ==
  /\ config # sessionConfig
  /\ SetSessionConfig(config)
  /\ Render
  /\ sessionEvent' = SessionEvent("setSessionConfig", 0)
  /\ UNCHANGED <<warningShownRef, clock, warnedAt, wsVars, listVars, row,
                 startedAt, now, selectedScans, deleteRequest>>

\* handleActivity, called by the throttled listener of the window events;
\* the listener is attached while authenticated only.
HandleActivity ==
  /\ isAuthenticated
  /\ UpdateLastActivity
  /\ warningShownRef' = FALSE
  /\ Render
  /\ sessionEvent' = SessionEvent("activity", 0)
  /\ UNCHANGED <<clock, warnedAt, wsVars, listVars, row, startedAt, now,
                 selectedScans, deleteRequest>>

\* sendHeartbeat called by its interval. The isAuthenticated it tests is the
\* one of the render that set the interval, which is true.
SendHeartbeat ==
  /\ heartbeatIntervalRef # Null
  /\ heartbeatsInFlight < MaxInFlight
  /\ heartbeatsInFlight' = heartbeatsInFlight + 1
  /\ sessionEvent' = SessionEvent("heartbeat", 0)
  /\ UNCHANGED <<authVars, heartbeatIntervalRef, inactivityCheckRef,
                 warningShownRef, clock, warnedAt, wsVars, listVars, row,
                 startedAt, now, selectedScans, deleteRequest>>

\* An answer handling that logs out on every failed heartbeat.
HeartbeatAnswerStrict(status) ==
  /\ heartbeatsInFlight > 0
  /\ IF status # 200
     THEN Logout /\ Reload
     ELSE /\ heartbeatsInFlight' = heartbeatsInFlight - 1
          /\ UNCHANGED <<authVars, heartbeatIntervalRef, inactivityCheckRef,
                         warningShownRef>>
  /\ sessionEvent' = SessionEvent("answer", status)
  /\ UNCHANGED <<clock, warnedAt, wsVars, listVars, row, startedAt, now,
                 selectedScans, deleteRequest>>

\* The answer to a heartbeat: the response interceptor of api, then the
\* catch of sendHeartbeat. Both log out on 401 and on nothing else.
HeartbeatAnswer(status) ==
  /\ heartbeatsInFlight > 0
  /\ IF status = 401
     THEN Logout /\ Reload
     ELSE /\ heartbeatsInFlight' = heartbeatsInFlight - 1
          /\ UNCHANGED <<authVars, heartbeatIntervalRef, inactivityCheckRef,
                         warningShownRef>>
  /\ sessionEvent' = SessionEvent("answer", status)
  /\ UNCHANGED <<clock, warnedAt, wsVars, listVars, row, startedAt, now,
                 selectedScans, deleteRequest>>

\* inactiveTime of checkInactivity at instant t, in seconds (the instants
\* are whole seconds, so the division is exact).
InactiveTime(t, last) == (t - last) \div 1000

WarningThreshold(config) == config.inactivityTimeout - 60

\* The warning toast of checkInactivity is shown.
WarningDue(t, last, config, shown) ==
  InactiveTime(t, last) >= WarningThreshold(config) /\ ~shown

\* A checkInactivity that logs out only after the timeout has been exceeded.
LogoutDueStrict(t, last, config) ==
  InactiveTime(t, last) > config.inactivityTimeout

\* checkInactivity logs out.
LogoutDue(t, last, config) ==
  InactiveTime(t, last) >= config.inactivityTimeout

\* checkInactivity called by its interval. Its isAuthenticated, lastActivity
\* and inactivityTimeout are those of the render that set the interval; the
\* effect sets a new interval whenever one of them changes.
CheckInactivity ==
  /\ inactivityCheckRef # Null
  /\ warnedAt' = IF WarningDue(clock, lastActivity, sessionConfig,
                               warningShownRef)
                 THEN clock ELSE warnedAt
  /\ IF LogoutDue(clock, lastActivity, sessionConfig)
     THEN Logout /\ Reload
     ELSE /\ warningShownRef' =
               (warningShownRef
                  \/ WarningDue(clock, lastActivity, sessionConfig,
                                warningShownRef))
          /\ UNCHANGED <<authVars, heartbeatIntervalRef, inactivityCheckRef,
                         heartbeatsInFlight>>
  /\ sessionEvent' = SessionEvent("check", 0)
  /\ UNCHANGED <<clock, wsVars, listVars, row, startedAt, now,
                 selectedScans, deleteRequest>>

\* Ten seconds pass.
SessionTick ==
  /\ clock < CHECK_INTERVAL_MS * MaxTicks
  /\ clock' = clock + CHECK_INTERVAL_MS
  /\ sessionEvent' = NoSessionEvent
  /\ UNCHANGED <<authVars, heartbeatIntervalRef, inactivityCheckRef,
                 warningShownRef, heartbeatsInFlight, warnedAt, wsVars,
                 listVars, row, startedAt, now, selectedScans, deleteRequest>>

\* The auth store with one mounted session manager.
NextSession ==
  \/ \E tok \in AuthTokens, rtok \in RefreshTokens, usr \in Users,
        config \in {Null, <<ShortSessionConfig>>} :
        UserLogin(tok, rtok, usr, config)
  \/ UserLogout
  \/ \E userData \in UserUpdates : UserUpdate(userData)
  \/ \E config \in SessionConfigs : ConfigChange(config)
  \/ HandleActivity
  \/ SendHeartbeat
  \/ \E status \in HeartbeatAnswers : HeartbeatAnswer(status)
  \/ CheckInactivity
  \/ SessionTick

SpecSession == Init /\ [][NextSession]_vars

TypeOK ==
  /\ scanId \in ScanIds \cup {NoScan}
  /\ wsRef \in SockIds \cup {0}
  /\ Tokens(socks, timers) <= MaxConns

LiveSocks == {s \in SockIds : IsLive(socks[s])}
PendingTimers == {t \in TimerIds : timers[t] # NoTimer}

\* ------------------------------------------------------------------ claims

\* C1: the findings sequence holds at most one entry per finding id, whatever
\* finding messages were handled (also across a reconnect).
C1_FindingsUniqueById ==
  \A i, j \in DOMAIN findings : findings[i].id = findings[j].id => i = j

\* C2: once the held snapshot of a scan has a terminal status, no later
\* message makes the status held for that scan active again.
C2_TerminalSticky ==
  [][progress.status \in TerminalStatuses =>
       ~(progress'.scan_id = progress.scan_id
         /\ progress'.status \in ActiveStatuses)]_vars

\* C3: while nothing is observed (after disconnect() ran and until observation
\* starts again) no reconnect timer is pending and no connection is live.
C3_NoReconnectAfterDisconnect ==
  scanId = NoScan => PendingTimers = {} /\ LiveSocks = {}

\* C4: every unexpected close while the scan stays observed schedules a
\* reconnect timer for the same scan with the fixed 3000 ms delay, and a new
\* connection to that scan is eventually opened.
C4_ReconnectAlways ==
  /\ [][\A s \in SockIds :
          (IsLive(socks[s]) /\ socks'[s].state = "closed") =>
             \E t \in TimerIds :
                /\ timers[t] = NoTimer
                /\ timers'[t] = [scan |-> socks[s].scan, delay |-> 3000]
                /\ socks[s].scan = scanId]_vars
  /\ \A a \in ScanIds :
        (\E t \in TimerIds : timers[t].scan = a)
          ~> (\E s \in SockIds : socks[s].state = "connecting" /\ socks[s].scan = a)

\* C4 witness: a connection that had delivered a snapshot closed and its
\* reconnect timer is pending.
C4_Witness ==
  /\ scanId # NoScan
  /\ progress.scan_id = scanId
  /\ LiveSocks = {}
  /\ \E t \in TimerIds : timers[t] = ReconnectTimer(scanId)

\* C6: at most one connection is connecting or open at any time.
C6_AtMostOneLive == Cardinality(LiveSocks) <= 1

\* C6 witness: connect() replaced a connection whose close event is still
\* outstanding while another reconnect timer is pending.
C6_Witness ==
  /\ \E s, r \in SockIds : IsLive(socks[s]) /\ socks[r].state = "closing"
  /\ PendingTimers # {}

\* C7: while a scan is observed, every connecting or open connection is a
\* connection to that scan.
C7_OnlyObservedScanConnected ==
  scanId # NoScan => \A s \in LiveSocks : socks[s].scan = scanId

\* C5: from one update of a running scan to the next with pagesScanned not
\* lower, the percent shown in the Scans table row does not decrease.
C5_RowPercentMonotone ==
  [][(row.status = "running" /\ row'.status = "running"
      /\ row'.pages_scanned >= row.pages_scanned)
       => RowProgress(row') >= RowProgress(row)]_vars

\* C8: on the Scans page the 2000 ms poll is in force exactly when the last
\* fetched list holds a pending, queued or running scan, and a request
\* issued by the interval is only ever issued while it does.
C8_PollIffActive ==
  /\ page = "scans" => (scansPoll = 2000 <=> HasActive(scansData))
  /\ scansPoll \in {0, 2000}
  /\ page # "scans" => scansPoll = 0
  /\ (scansFetching /\ scansFetchCause = "interval") => HasActive(scansData)

\* C8 witness: a fetch returned a list whose scans are all terminal and
\* polling has stopped on the mounted Scans page.
C8_Witness ==
  /\ page = "scans"
  /\ scansData # Undefined
  /\ \E id \in ListScanIds : scansData[id] \in TerminalStatuses
  /\ ~HasActive(scansData)
  /\ scansPoll = 0
  /\ ~scansFetching

PollingStopped == page = "scans" /\ scansPoll = 0 /\ ~scansFetching

\* C9 (as stated): once polling has stopped, a new active scan appearing on
\* the server at once leads to a list fetch or to polling being active.
C9_ResumesOnNewActiveScan ==
  [][(PollingStopped
      /\ ~(\E id \in ListScanIds : serverScans[id] \in ActiveStatuses)
      /\ (\E id \in ListScanIds : serverScans'[id] \in ActiveStatuses))
       => (scansFetching' \/ scansPoll' # 0)]_vars

\* C9 (amended): an answered fetch leaves polling active exactly when its
\* list holds an active scan; once polling has stopped, a scan becoming
\* active on the server starts neither a fetch nor polling; polling becomes
\* active again only by a fetch issued by a mount or an invalidation that
\* returns an active scan.
C9_ResumesOnlyByTrigger ==
  [][/\ (scansFetching /\ ~scansFetching' /\ page = "scans")
          => (scansPoll' # 0 <=> HasActive(scansData'))
     /\ (PollingStopped
         /\ \E id \in ListScanIds : /\ serverScans[id] \notin ActiveStatuses
                                     /\ serverScans'[id] \in ActiveStatuses)
          => PollingStopped'
     /\ (page = "scans" /\ scansPoll = 0 /\ scansPoll' # 0)
          => (scansFetching /\ scansFetchCause \in {"mount", "invalidate"}
              /\ ~scansFetching' /\ HasActive(scansData'))]_vars

\* C9 witness: polling has stopped on the mounted Scans page, the last
\* fetched list holds no active scan and a new scan is active on the server.
C9_Witness ==
  /\ PollingStopped
  /\ scansData # Undefined
  /\ ~HasActive(scansData)
  /\ \E id \in ListScanIds : serverScans[id] \in ActiveStatuses

\* C10: once the last fetched running-scans list holds no active scan, the
\* Applications page has no poll in force and issues no interval request.
C10_NoPollWhenIdle ==
  (runningData # Undefined /\ ~HasActive(runningData))
    => (runningPoll = 0 /\ ~(runningFetching /\ runningFetchCause = "interval"))

\* C11: a row offers cancel exactly when the scan is pending, queued or
\* running, offers delete exactly when it is completed, failed or cancelled,
\* and so offers exactly one of the two for every status.
C11_ExactlyOneRowAction ==
  /\ CancelOffered(row) <=> row.status \in {"pending", "queued", "running"}
  /\ DeleteOffered(row) <=> row.status \in {"completed", "failed", "cancelled"}
  /\ CancelOffered(row) # DeleteOffered(row)

\* C11 witness: the row of a cancelled scan offers delete and not cancel.
C11_Witness ==
  /\ row.status = "cancelled"
  /\ row.pages_scanned > 0
  /\ DeleteOffered(row)
  /\ ~CancelOffered(row)

C13_DeleteOnlyTerminal ==
  [][deleteRequest' # deleteRequest
       => \A id \in deleteRequest' :
            ~(scansData # Undefined /\ scansData[id] \in ActiveStatuses)]_vars

\* C14: estimateRemaining is null when pagesScanned is 0 or totalPages is
\* unknown, and otherwise floor((elapsed / pagesScanned) *
\* max(totalPages - pagesScanned, 0)).
C14_EstimateFormula ==
  startedAt # 0 =>
    EstimateRemaining(row, startedAt, now) =
      IF row.pages_scanned = 0 \/ row.total_pages = 0 THEN <<>>
      ELSE LET left == row.total_pages - row.pages_scanned
           IN  <<(CalculateElapsed(startedAt, now)
                    * (IF left > 0 THEN left ELSE 0)) \div row.pages_scanned>>

\* C15: the remaining time shown in a row is null or an integer that is not
\* negative, also when pagesScanned exceeds totalPages and when started_at
\* is later than the client clock.
C15_RemainingNonNegative ==
  LET remaining == RowRemaining(row, startedAt, now)
  IN  remaining = <<>> \/ remaining[1] >= 0

\* C16: while the snapshot of the modal is running with totalPages known,
\* the percent the modal shows is min(floor(pagesScanned / totalPages * 100),
\* 99) and so below 100.
C16_RunningPercentCapped ==
  (progress.status = "running" /\ progress.total_pages > 0)
    => /\ ModalPercent =
            Min2((progress.pages_scanned * 100) \div progress.total_pages, 99)
       /\ ModalPercent < 100

\* C17: the percent of a table row is 100 exactly when the scan is completed,
\* and when a running scan becomes failed or cancelled the row keeps the
\* percent it showed while running.
C17_HundredIffCompletedAndFrozen ==
  /\ [](RowProgress(row) = 100 <=> row.status = "completed")
  /\ [][(row.status = "running" /\ row'.status \in {"failed", "cancelled"})
          => RowProgress(row') = RowProgress(row)]_vars

\* C18: the snapshot held is the one built from the last progress message
\* alone, each field the message's or its default; a message with percent 35
\* handled while 40 is held (a reconnect in between or not) leaves 35.
C18_SnapshotReplaced ==
  /\ [](lastProgressMsg # NoProgress =>
        /\ progress.scan_id = lastProgressMsg.scan_id
        /\ progress.status = lastProgressMsg.status
        /\ progress.percent = lastProgressMsg.percent
        /\ progress.pages_scanned = lastProgressMsg.pages_scanned
        /\ progress.total_pages =
             (IF lastProgressMsg.total_pages = Absent THEN 0
              ELSE lastProgressMsg.total_pages)
        /\ progress.elapsed_seconds =
             (IF lastProgressMsg.elapsed_seconds = Absent THEN 0
              ELSE lastProgressMsg.elapsed_seconds)
        /\ progress.estimated_remaining_seconds =
             lastProgressMsg.estimated_remaining_seconds)
  /\ [][(progress.percent = 40 /\ lastProgressMsg' # lastProgressMsg
          /\ lastProgressMsg'.percent = 35)
          => progress'.percent = 35]_vars

\* C18 witness: after a reconnect (the reconnect timer was used and the new
\* socket is open) a message with percent 35 was handled and 35 is held.
C18_Witness ==
  /\ reconnectTimeoutRef # 0
  /\ PendingTimers = {}
  /\ \E s \in SockIds : socks[s].state = "open" /\ socks[s].scan = scanId
  /\ lastProgressMsg.percent = 35
  /\ lastProgressMsg.total_pages = Absent
  /\ progress.percent = 35
  /\ progress.total_pages = 0

\* C19: the remaining time held after a progress message is the value the
\* server supplied, and when none was supplied while totalPages is known and
\* pagesScanned > 0 it is floor((elapsed / pagesScanned) *
\* max(totalPages - pagesScanned, 0)).
C19_RemainingSuppliedOrEstimated ==
  progress # NoProgress =>
    ModalEstimatedRemaining =
      IF lastProgressMsg.estimated_remaining_seconds # Absent
      THEN lastProgressMsg.estimated_remaining_seconds
      ELSE IF progress.total_pages > 0 /\ progress.pages_scanned > 0
           THEN (progress.elapsed_seconds
                   * (IF progress.total_pages > progress.pages_scanned
                      THEN progress.total_pages - progress.pages_scanned
                      ELSE 0)) \div progress.pages_scanned
           ELSE Absent

\* C20: for one observed scan onCompleted is called at most once, whatever
\* terminal progress messages and completed messages are received.
C20_CompletedOnce == completedCalls <= 1

\* C21: the modal's onCompleted is only ever called by the 2000 ms timeout
\* started at the terminal event, never in the step that handles a completed
\* message or a terminal status.
C21_CompletedOnlyAfterGrace ==
  [][completedCalls' # completedCalls => (modalTimer /\ ~modalTimer')]_vars

\* C22: once the snapshot held has a terminal status, a close schedules no
\* reconnect timer and no new connection is created.
C22_NoReconnectAfterTerminal ==
  [][progress.status \in TerminalStatuses
       => /\ \A t \in TimerIds : timers[t] = NoTimer => timers'[t] = NoTimer
          /\ \A s \in SockIds :
                socks[s].state = "closed" => socks'[s].state = "closed"]_vars

\* C23: handling an error message sets the error string and notifies
\* onError, and leaves the snapshot, the findings, the connections and the
\* reconnect timers as they were.
C23_ErrorMessageOnlySetsError ==
  [][(lastMessage' = "error" /\ lastMessage # "error")
       => /\ error' = "server error"
          /\ notified' = "server error"
          /\ progress' = progress
          /\ findings' = findings
          /\ socks' = socks
          /\ wsRef' = wsRef
          /\ isConnected' = isConnected
          /\ timers' = timers
          /\ reconnectTimeoutRef' = reconnectTimeoutRef]_vars

\* C23 witness: an error message was handled on an open connection that had
\* delivered a running snapshot and findings.
C23_Witness ==
  /\ lastMessage = "error"
  /\ error = "server error"
  /\ progress.status = "running"
  /\ Len(findings) = 2
  /\ \E s \in SockIds : socks[s].state = "open"
  /\ PendingTimers = {}

\* C24: a payload that is not valid JSON, a finding message without finding
\* object and a message of unknown type change neither progress, findings,
\* error nor the connection state and notify nobody, and a finding message
\* handled after one of them is still added.
C24_MalformedDropped ==
  [][/\ (lastMessage' \in {"invalid JSON", "finding without finding",
                           "unknown type"}
         /\ lastMessage' # lastMessage)
          => /\ progress' = progress
             /\ findings' = findings
             /\ error' = error
             /\ notified' = notified
             /\ isConnected' = isConnected
             /\ socks' = socks
             /\ wsRef' = wsRef
             /\ timers' = timers
     /\ (lastMessage \in {"invalid JSON", "finding without finding",
                          "unknown type"}
         /\ lastMessage' = "finding")
          => Len(findings') = Len(findings) + 1]_vars

\* C24 witness: a finding message without finding object was dropped on an
\* open connection; no error is shown, snapshot and findings are held.
C24_Witness ==
  /\ lastMessage = "finding without finding"
  /\ error = "null"
  /\ findings # <<>>
  /\ progress # NoProgress
  /\ \E s \in SockIds : socks[s].state = "open"

\* C25: a transport error event sets the error state and notifies onError
\* with it, and changes neither the connections nor the reconnect timers.
C25_TransportErrorSurfaced ==
  [][(error' = "WebSocket connection error"
      /\ error # "WebSocket connection error")
       => /\ notified' = "WebSocket connection error"
          /\ socks' = socks
          /\ timers' = timers]_vars

\* C26: whenever the current connection is open its keep-alive interval is
\* running; no close event of an earlier connection stops it.
C26_KeepAliveWhileOpen ==
  \A s \in SockIds : (s = wsRef /\ socks[s].state = "open") => socks[s].ping

\* C27: handling a pong or a connected message changes neither progress,
\* findings, error nor isConnected and calls no callback.
C27_PongConnectedNoChange ==
  [][(lastMessage' \in {"pong", "connected"} /\ lastMessage' # lastMessage)
       => /\ progress' = progress
          /\ findings' = findings
          /\ error' = error
          /\ isConnected' = isConnected
          /\ notified' = notified
          /\ completedCalls' = completedCalls]_vars

\* C27 witness: a pong was handled while an error, a snapshot and findings
\* were held.
C27_Witness ==
  /\ lastMessage = "pong"
  /\ error = "server error"
  /\ findings # <<>>
  /\ progress # NoProgress

\* C28: the status held for a listed scan changes only when a list request
\* is answered, to the status the server reports; the step in which a cancel
\* takes effect on the server changes neither the list held nor the hook's
\* channel, so cancelled is shown only once the server reported it.
C28_StatusOnlyFromServer ==
  [][/\ scansData' # scansData
          => (scansFetching /\ ~scansFetching' /\ scansData' = serverScans)
     /\ (\E id \in ListScanIds : /\ serverScans[id] \in ActiveStatuses
                                   /\ serverScans'[id] = "cancelled")
          => (scansData' = scansData /\ wsVars' = wsVars)]_vars

\* C28 witness: a cancel took effect on the server and the list still shows
\* the scan as active while the invalidated query refetches.
C28_Witness ==
  /\ page = "scans"
  /\ scansFetching
  /\ scansFetchCause = "invalidate"
  /\ \E id \in ListScanIds :
        serverScans[id] = "cancelled" /\ scansData[id] \in ActiveStatuses

C31_AtMostOneReconnectTimer == Cardinality(PendingTimers) <= 1

\* C32: isConnected is true exactly when the socket held in wsRef is open; a
\* close event of an earlier socket never makes it false while the current
\* socket is open.
C32_IsConnectedMirrorsCurrent ==
  isConnected <=> (wsRef # 0 /\ socks[wsRef].state = "open")

\* C33: while a scan is observed, the progress snapshot the hook holds was
\* received for that scan: after scanId changes from A to B no snapshot of A
\* is exposed.
C33_SnapshotOfObservedScan ==
  (scanId # NoScan /\ progress # NoProgress) => progress.scan_id = scanId

\* C34: the step in which a connecting socket becomes open sets isConnected
\* to true and the error string to null and leaves the progress snapshot and
\* the findings as they were; an application error received before the
\* disconnect is therefore gone after the reconnect.
C34_OpenResetsErrorOnly ==
  [][(\E s \in SockIds : socks[s].state = "connecting"
                         /\ socks'[s].state = "open")
       => /\ isConnected'
          /\ error' = "null"
          /\ progress' = progress
          /\ findings' = findings]_vars

\* C34 witness: the last message handled was an application error, the
\* connection was lost and reopened by the reconnect timer, and the error
\* string is null again while snapshot and findings are still held.
C34_Witness ==
  /\ lastMessage = "error"
  /\ notified = "server error"
  /\ error = "null"
  /\ isConnected
  /\ reconnectTimeoutRef # 0
  /\ wsRef # 0 /\ socks[wsRef].state = "open"
  /\ progress.status = "running"
  /\ Len(findings) = 1

\* C35: in the auth store isAuthenticated is true exactly when token and
\* user are both non-null; a step that ends the authenticated state leaves
\* token, refreshToken and user null, sessionConfig the default and
\* lastActivity 0; updateUser while user is null leaves it null.
C35_AuthStoreConsistent ==
  /\ [](isAuthenticated <=> (token # Null /\ user # Null))
  /\ [][(isAuthenticated /\ ~isAuthenticated')
          => /\ token' = Null
             /\ refreshToken' = Null
             /\ user' = Null
             /\ sessionConfig' = DEFAULT_SESSION_CONFIG
             /\ lastActivity' = 0]_vars
  /\ [][(sessionEvent'.kind = "updateUser" /\ user = Null)
          => user' = Null]_vars

\* C35 witness: after a login and a logout, updateUser was called while
\* logged out and the store is in its logged-out state.
C35_Witness ==
  /\ sessionEvent.kind = "updateUser"
  /\ ~isAuthenticated
  /\ user = Null
  /\ token = Null
  /\ refreshToken = Null
  /\ lastActivity = 0
  /\ sessionConfig = DEFAULT_SESSION_CONFIG

\* C36: while authenticated, an inactivity check at an instant with
\* (now - lastActivity) >= inactivityTimeout leaves the user logged out, a
\* check below the timeout leaves the auth store as it is, and the
\* authenticated state ends only at such a check, at a heartbeat answered
\* with 401, or when the user logs out.
C36_LogoutOnlyOnTimeoutOr401 ==
  /\ [][(sessionEvent'.kind = "check" /\ isAuthenticated
           /\ InactiveTime(clock, lastActivity)
                >= sessionConfig.inactivityTimeout)
          => ~isAuthenticated']_vars
  /\ [][(sessionEvent'.kind = "check" /\ isAuthenticated
           /\ InactiveTime(clock, lastActivity)
                < sessionConfig.inactivityTimeout)
          => authVars' = authVars]_vars
  /\ [][(isAuthenticated /\ ~isAuthenticated')
          => \/ /\ sessionEvent'.kind = "check"
                /\ InactiveTime(clock, lastActivity)
                     >= sessionConfig.inactivityTimeout
             \/ sessionEvent' = SessionEvent("answer", 401)
             \/ sessionEvent'.kind = "logout"]_vars

\* C36 witness: an inactivity check showed the warning and left the user
\* logged in, and a later check logged the user out.
C36_Witness ==
  /\ sessionEvent.kind = "check"
  /\ ~isAuthenticated
  /\ lastActivity = 0
  /\ warnedAt > 0
  /\ warnedAt < clock

\* C37: a new inactivity warning is shown only when none has been shown
\* since the last recorded activity, and an inactivity check performed while
\* authenticated at inactive time >= inactivityTimeout - 60 s shows the
\* warning unless it was already shown in this period of inactivity.
C37_WarningOncePerInactivity ==
  /\ [][warnedAt' # warnedAt => warnedAt <= lastActivity]_vars
  /\ [][(sessionEvent'.kind = "check" /\ isAuthenticated
           /\ InactiveTime(clock, lastActivity)
                >= sessionConfig.inactivityTimeout - 60)
          => (warnedAt' = clock \/ warnedAt > lastActivity)]_vars

\* C38: while the user is not authenticated neither the heartbeat interval
\* nor the inactivity-check interval exists, a heartbeat request is sent only
\* by a step that ends authenticated, and no interval tick (heartbeat or
\* inactivity check) runs from a state that is not authenticated.
C38_NoHeartbeatWhenLoggedOut ==
  /\ [](~isAuthenticated
          => (heartbeatIntervalRef = Null /\ inactivityCheckRef = Null))
  /\ [][heartbeatsInFlight' > heartbeatsInFlight => isAuthenticated']_vars
  /\ [][~isAuthenticated
          => sessionEvent'.kind \notin {"heartbeat", "check"}]_vars

\* C38 witness: the user logged out while a heartbeat was awaiting its
\* answer; both intervals are gone.
C38_Witness ==
  /\ sessionEvent.kind = "logout"
  /\ ~isAuthenticated
  /\ heartbeatsInFlight = 2
  /\ heartbeatIntervalRef = Null
  /\ inactivityCheckRef = Null
  /\ clock > CHECK_INTERVAL_MS

\* C39: the answer 401 to a heartbeat leaves the auth store in its
\* logged-out state; a heartbeat that fails with another status or gets no
\* response leaves the auth store and the heartbeat interval as they were.
C39_Only401LogsOut ==
  /\ [][sessionEvent' = SessionEvent("answer", 401)
          => /\ ~isAuthenticated'
             /\ token' = Null
             /\ refreshToken' = Null
             /\ user' = Null
             /\ sessionConfig' = DEFAULT_SESSION_CONFIG
             /\ lastActivity' = 0]_vars
  /\ [][(sessionEvent'.kind = "answer"
           /\ sessionEvent'.status \in {500, NoResponse})
          => /\ authVars' = authVars
             /\ heartbeatIntervalRef' = heartbeatIntervalRef]_vars

\* C39 witness: a heartbeat was answered with 401 in a session whose
\* inactivity warning had been shown, and the store is logged out.
C39_Witness ==
  /\ sessionEvent = SessionEvent("answer", 401)
  /\ ~isAuthenticated
  /\ token = Null
  /\ lastActivity = 0
  /\ warnedAt > 0
  /\ heartbeatIntervalRef = Null
====
